---- MODULE Spec2Model ----
(***************************************************************************)
(* State layer of the markdown viewer (src/unnamed/part_000, the App       *)
(* module): the document registry useFiles with its localStorage           *)
(* persistence, the notification queue useToast, the theme resolver        *)
(* useTheme, and the App component's handlers that tie them together.      *)
(*                                                                         *)
(* Granularity.  JavaScript runs one task at a time and every setState in  *)
(* the source uses a functional updater, so a call of a hook operation     *)
(* together with the re-render it causes is one atomic step.  Passive      *)
(* effects whose timing is observable (the localStorage write of useFiles, *)
(* the timers of useToast, FileReader completions) are steps of their own. *)
(*                                                                         *)
(* React runs the passive effects of a commit before the next render, and  *)
(* those of a render caused by a click before the click returns: the two   *)
(* effects of useTheme are part of the setTheme step.                      *)
(*                                                                         *)
(* Clock.  Date.now() is the variable now; it never decreases.  Several    *)
(* calls may read the same value.                                          *)
(*                                                                         *)
(* Ids.  crypto.randomUUID() never returns the same value twice; the k-th  *)
(* value it returns is modelled as the number k.  0 is an id that it never *)
(* returns (a caller's unknown id).                                        *)
(***************************************************************************)
EXTENDS Integers, Sequences, FiniteSets, TLC

VARIABLES
    files,            \* useFiles: the files state (meaningful when filesKind = "array")
    filesKind,        \* JavaScript shape of the files state value
    stored,           \* localStorage item STORAGE_KEY
    writePending,     \* the [files] effect of useFiles is scheduled and has not run
    uuidCount,        \* number of values crypto.randomUUID has returned
    now,              \* Date.now()
    toasts,           \* useToast: the toasts state
    timers,           \* pending setTimeout callbacks of addToast, oldest first
    toastCount,       \* history: number of addToast calls so far
    theme,            \* useTheme: the theme state
    osDark,           \* matchMedia("(prefers-color-scheme: dark)").matches
    rootClass,        \* which of "light" / "dark" (or other token) is on documentElement
    listening,        \* handleChange is subscribed to the media query
    storedTheme,      \* localStorage item "theme"
    selectedId,       \* App: selectedId (0 stands for null)
    isEditing,        \* App: isEditing
    editableContent,  \* App: editableContent
    uploads,          \* FileReader reads started by handleFiles and not completed
    bufferOf,         \* history: id of the document editableContent was loaded from (0: none)
    lastOp,           \* history: the operation that produced this state
    lastArg,          \* history: its arguments
    lastRet           \* history: the id createFile returned, or the number of
                      \* elements a filter or map matched, else 0

fileVars == <<files, filesKind, stored, writePending, uuidCount>>
toastVars == <<toasts, timers, toastCount>>
themeVars == <<theme, osDark, rootClass, listening, storedTheme>>
appVars == <<selectedId, isEditing, editableContent, uploads, bufferOf>>
histVars == <<lastOp, lastArg, lastRet>>
vars == <<fileVars, now, toastVars, themeVars, appVars, histVars>>

----------------------------------------------------------------------------
(* Bounds of the model *)

\* crypto.randomUUID is called at most this many times (earlier sessions included)
MaxUuid == 2
\* the clock advances millisecond by millisecond up to MaxClock; beyond it
\* time only passes up to the due time of timers set by then
MaxClock == 1
\* at most this many setTimeout callbacks of addToast are pending at once
MaxToasts == 2

\* setTimeout(..., 5000)
ToastDelay == 5000

(* Inputs: names given to createFile, and texts given as content *)
Names == {"n", "md", "n.md"}
Contents == {"c0", "c1"}

----------------------------------------------------------------------------
(* Strings *)

MdSuffix == ".md"

\* String.prototype.endsWith(".md")
EndsWithMd(name) ==
    /\ Len(name) >= Len(MdSuffix)
    /\ SubSeq(name, Len(name) - Len(MdSuffix) + 1, Len(name)) = MdSuffix

NormalizeNameAlwaysAppend(name) == name \o MdSuffix

\* name.endsWith(".md") ? name : `${name}.md`
NormalizeName(name) == IF EndsWithMd(name) THEN name ELSE name \o MdSuffix

----------------------------------------------------------------------------
(* JSON text of the documents key.  A text is a record [kind, items]: kind *)
(* says what the text is, items are the serialized elements when it is an  *)
(* array.  A serialized document is the sequence of its key/value pairs in *)
(* the order JSON.stringify writes them.                                   *)

FieldOrder == <<"id", "name", "content", "createdAt", "updatedAt">>

StringifyDoc(f) == [i \in 1..Len(FieldOrder) |-> [k |-> FieldOrder[i], v |-> f[FieldOrder[i]]]]

ParseDoc(pairs) ==
    [key \in {pairs[i].k : i \in 1..Len(pairs)} |->
        LET last == CHOOSE i \in 1..Len(pairs) :
                        /\ pairs[i].k = key
                        /\ \A j \in 1..Len(pairs) : pairs[j].k = key => j <= i
        IN  pairs[last].v]

JSONstringifyDropsLast(fs) ==
    [kind |-> "array",
     items |-> [i \in 1..(IF Len(fs) > 1 THEN Len(fs) - 1 ELSE Len(fs)) |-> StringifyDoc(fs[i])]]

\* JSON.stringify(files) for an array of FileItem
JSONstringify(fs) == [kind |-> "array", items |-> [i \in 1..Len(fs) |-> StringifyDoc(fs[i])]]

\* JSON.parse(stored) for a text that is valid JSON: the shape and, for an array, the elements
JSONparse(text) == [kind |-> text.kind,
                    items |-> [i \in 1..Len(text.items) |-> ParseDoc(text.items[i])]]

\* localStorage.getItem returns null
Absent == [kind |-> "absent", items |-> <<>>]

----------------------------------------------------------------------------
(* History *)

NoArg == [id |-> 0, name |-> "", content |-> "", updates |-> <<>>, n |-> 0]

\* Number of elements of a sequence of records that carry the given id
Matches(seq, id) == Cardinality({i \in 1..Len(seq) : seq[i].id = id})

Record(op, arg, ret) ==
    /\ lastOp' = op
    /\ lastArg' = arg
    /\ lastRet' = ret

----------------------------------------------------------------------------
(* useFiles *)

\* What the documents key can hold when the app starts: nothing, the empty
\* string, text that is not JSON, JSON of another shape (null, {}, 5, "abc"),
\* or an array written by an earlier session.
Doc1 == [id |-> 1, name |-> "n.md", content |-> "c0", createdAt |-> 0, updatedAt |-> 0]
NonArrayKinds == {"null", "object", "number", "string"}
StoredAtStart ==
    {Absent}
    \cup {[kind |-> k, items |-> <<>>] : k \in {"empty", "invalid"} \cup NonArrayKinds}
    \cup {JSONstringify(fs) : fs \in {<<>>, <<Doc1>>}}

\* The lazy initializer of the files state: the value the state starts with,
\* as [kind, items].  getItem's null and "" are falsy; JSON.parse throws on
\* text that is not JSON and the catch returns []; any other text is
\* returned as parsed.
LoadFiles(s) ==
    IF s.kind \in {"absent", "empty"} THEN [kind |-> "array", items |-> <<>>]
    ELSE IF s.kind = "invalid" THEN [kind |-> "array", items |-> <<>>]
    ELSE JSONparse(s)

\* FileList reads files.length and calls files.map: with null both throw a
\* TypeError, with {} / 5 / "abc" length is not 0 and map is not a function.
RenderThrows(kind) == kind # "array"

Ids(fs) == {fs[i].id : i \in 1..Len(fs)}

\* files.find((f) => f.id === id): the first match as a one-element
\* sequence, << >> for undefined
Find(fs, id) ==
    LET hits == {i \in 1..Len(fs) : fs[i].id = id}
    IN  IF hits = {} THEN <<>>
        ELSE <<fs[CHOOSE i \in hits : \A j \in hits : i <= j]>>

getFile(id) == Find(files, id)

\* crypto.randomUUID()
randomUUID == uuidCount + 1

NewFile(id, name, content, t1, t2) ==
    [id |-> id, name |-> NormalizeName(name), content |-> content,
     createdAt |-> t1, updatedAt |-> t2]

\* [newFile, ...prev]
CreatedFiles(prev, newFile) == <<newFile>> \o prev

\* { ...f, ...updates, updatedAt: Date.now() }
Merge(f, updates, t) ==
    [key \in DOMAIN f \cup DOMAIN updates |->
        IF key = "updatedAt" THEN t
        ELSE IF key \in DOMAIN updates THEN updates[key]
        ELSE f[key]]

UpdatedFilesAll(prev, id, updates, t) ==
    [i \in 1..Len(prev) |-> Merge(prev[i], updates, t)]

\* prev.map((f) => (f.id === id ? {...} : f))
UpdatedFiles(prev, id, updates, t) ==
    [i \in 1..Len(prev) |-> IF prev[i].id = id THEN Merge(prev[i], updates, t) ELSE prev[i]]

DeletedFilesHead(prev, id) ==
    IF Find(prev, id) = <<>> THEN prev ELSE Tail(prev)

\* prev.filter((f) => f.id !== id)
DeletedFiles(prev, id) == SelectSeq(prev, LAMBDA f : f.id # id)

\* React runs the passive effects of a commit before it starts the next
\* render, so a write still pending from the previous commit happens before
\* the updater of the next mutation is applied.
FlushedStore == IF writePending THEN JSONstringify(files) ELSE stored

\* The state changes of the three mutators, without the history.  Each
\* produces a new array, so the [files] effect is scheduled every time.
DoCreateFile(name, content, t2) ==
    /\ files' = CreatedFiles(files, NewFile(randomUUID, name, content, now, t2))
    /\ uuidCount' = uuidCount + 1
    /\ now' = t2
    /\ stored' = FlushedStore
    /\ writePending' = TRUE
    /\ UNCHANGED filesKind

DoUpdateFile(id, updates) ==
    /\ files' = UpdatedFiles(files, id, updates, now)
    /\ stored' = FlushedStore
    /\ writePending' = TRUE
    /\ UNCHANGED <<filesKind, uuidCount, now>>

DoDeleteFile(id) ==
    /\ files' = DeletedFiles(files, id)
    /\ stored' = FlushedStore
    /\ writePending' = TRUE
    /\ UNCHANGED <<filesKind, uuidCount, now>>

\* The two Date.now() reads of createFile: the second may see the next value
SecondRead == {now} \cup {t \in {now + 1} : t <= MaxClock}

\* The partial field sets updateFile is called with: a new content (what
\* handleSave passes) or no field at all
UpdateSets == {[content |-> c] : c \in Contents} \cup {<<>>}

\* Partial<FileItem> also admits the id field
IdUpdateSets == {[id |-> i] : i \in 1..uuidCount}

Mounted == ~RenderThrows(filesKind)

createFile(name, content) ==
    /\ Mounted
    /\ uuidCount < MaxUuid
    /\ \E t2 \in SecondRead : DoCreateFile(name, content, t2)
    /\ Record("createFile", [NoArg EXCEPT !.name = name, !.content = content],
              randomUUID)
    /\ UNCHANGED <<toastVars, themeVars, appVars>>

updateFile(id, updates) ==
    /\ Mounted
    /\ DoUpdateFile(id, updates)
    /\ Record("updateFile", [NoArg EXCEPT !.id = id, !.updates = updates],
              Matches(files, id))
    /\ UNCHANGED <<toastVars, themeVars, appVars>>

deleteFile(id) ==
    /\ Mounted
    /\ DoDeleteFile(id)
    /\ Record("deleteFile", [NoArg EXCEPT !.id = id], Matches(files, id))
    /\ UNCHANGED <<toastVars, themeVars, appVars>>

\* useEffect(() => startTransition(() => localStorage.setItem(...)), [files]):
\* startTransition calls its callback at once, so the effect is the write.
DoPersist ==
    /\ writePending
    /\ stored' = FlushedStore
    /\ writePending' = FALSE
    /\ UNCHANGED <<files, filesKind, uuidCount>>

PersistEffect ==
    /\ DoPersist
    /\ Record("persist", NoArg, 0)
    /\ UNCHANGED <<now, toastVars, themeVars, appVars>>

\* A millisecond passes
Tick ==
    /\ now < MaxClock
    /\ now' = now + 1
    /\ Record("tick", NoArg, 0)
    /\ UNCHANGED <<fileVars, toastVars, themeVars, appVars>>

----------------------------------------------------------------------------
(* useToast *)

\* The types the App passes ("error" is declared and never passed)
ToastTypes == {"success", "info"}

\* [...prev, { ...toast, id }] with id = Date.now().  n is history: the
\* ordinal of the addToast call, which the code does not keep.
AddedToasts(prev, type, message, id, n) ==
    Append(prev, [id |-> id, type |-> type, message |-> message, n |-> n])

\* prev.filter((t) => t.id !== id)
RemovedToasts(prev, id) == SelectSeq(prev, LAMBDA t : t.id # id)

\* addToast: the append and the setTimeout, whose callback captures id
DoAddToast(type, message, t) ==
    /\ toasts' = AddedToasts(toasts, type, message, t, toastCount + 1)
    /\ timers' = Append(timers, [id |-> t, due |-> t + ToastDelay, n |-> toastCount + 1])
    /\ toastCount' = toastCount + 1

TimerRoom == Len(timers) < MaxToasts

addToast(type, message) ==
    /\ TimerRoom
    /\ DoAddToast(type, message, now)
    /\ Record("addToast", [NoArg EXCEPT !.id = now, !.name = type, !.content = message], 0)
    /\ UNCHANGED <<fileVars, now, themeVars, appVars>>

removeToast(id) ==
    /\ toasts' = RemovedToasts(toasts, id)
    /\ Record("removeToast", [NoArg EXCEPT !.id = id], Matches(toasts, id))
    /\ UNCHANGED <<timers, toastCount, fileVars, now, themeVars, appVars>>

\* The callback of the oldest pending timer runs.  All timers have the same
\* delay, so they run in the order they were set, none before it is due.
TimerFires ==
    /\ timers # <<>>
    /\ Head(timers).due <= now
    /\ toasts' = RemovedToasts(toasts, Head(timers).id)
    /\ timers' = Tail(timers)
    /\ Record("timer", [NoArg EXCEPT !.id = Head(timers).id, !.n = Head(timers).n],
              Matches(toasts, Head(timers).id))
    /\ UNCHANGED <<toastCount, fileVars, now, themeVars, appVars>>

\* Time passes until the oldest pending timer is due
Elapse ==
    /\ timers # <<>>
    /\ now < Head(timers).due
    /\ Head(timers).due <= MaxClock + ToastDelay
    /\ now' = Head(timers).due
    /\ Record("elapse", NoArg, 0)
    /\ UNCHANGED <<fileVars, toastVars, themeVars, appVars>>

----------------------------------------------------------------------------
(* useTheme *)

Themes == {"light", "dark", "system"}

\* What localStorage item "theme" can hold when the app starts: nothing (""),
\* one of the three preferences, or a string that is none of them
StoredThemeAtStart == {"", "light", "dark", "system", "sepia"}

\* stored ?? "system"
LoadTheme(s) == IF s = "" THEN "system" ELSE s

\* First effect: classList.remove("light", "dark"), then add the resolved
\* class.  The result is the one of "light" / "dark" that is on the root
\* afterwards ("" when neither is).
ResolvedClass(th, dark) ==
    IF th = "system" THEN (IF dark THEN "dark" ELSE "light")
    ELSE IF th \in {"light", "dark"} THEN th
    ELSE ""

ListenerKept(th) == TRUE

\* Second effect: handleChange is subscribed exactly while theme is "system"
\* (the cleanup removes it when theme changes)
ListenerInstalled(th) == th = "system"

\* Both effects of a render with theme th
ThemeEffects(th) ==
    /\ storedTheme' = th
    /\ rootClass' = ResolvedClass(th, osDark)
    /\ listening' = ListenerInstalled(th)

\* setTheme(th) and the render it causes.  With th equal to the state React
\* bails out and no effect runs, which leaves everything as it is.
setTheme(th) ==
    /\ theme' = th
    /\ IF th = theme
       THEN UNCHANGED <<storedTheme, rootClass, listening>>
       ELSE ThemeEffects(th)
    /\ Record("setTheme", [NoArg EXCEPT !.name = th, !.content = rootClass], 0)
    /\ UNCHANGED <<osDark, fileVars, now, toastVars, appVars>>

\* The OS colour scheme changes; the media query dispatches "change" to
\* handleChange if it is subscribed
OsSchemeChanges ==
    /\ osDark' = ~osDark
    /\ rootClass' = IF listening THEN (IF osDark' THEN "dark" ELSE "light") ELSE rootClass
    /\ Record("osChange", [NoArg EXCEPT !.name = theme, !.content = rootClass], 0)
    /\ UNCHANGED <<theme, listening, storedTheme, fileVars, now, toastVars, appVars>>

\* State after the mount effects, for a given OS signal and stored preference
InitTheme(dark, s) ==
    /\ osDark = dark
    /\ theme = LoadTheme(s)
    /\ storedTheme = LoadTheme(s)
    /\ rootClass = ResolvedClass(LoadTheme(s), dark)
    /\ listening = ListenerInstalled(LoadTheme(s))

----------------------------------------------------------------------------
(* App *)

\* createFile(name, "# New File\n\nStart writing here...")
NewFileContent == "# New File"

\* What the user answers to prompt("Enter file name:", "untitled.md"); null
\* and "" create nothing
PromptNames == {"n"}

\* What the user types into the textarea
TypedTexts == {"c1"}

\* Files the user drops or picks
DroppedFiles ==
    {[name |-> "n.md", type |-> "", content |-> "c0"],
     [name |-> "n", type |-> "text/markdown", content |-> "c0"],
     [name |-> "n", type |-> "text/plain", content |-> "c0"]}

\* file.type === "text/markdown" || file.name.endsWith(".md")
Accepted(file) == file.type = "text/markdown" \/ EndsWithMd(file.name)

\* selectedId ? getFile(selectedId) : null, as Find gives it
selectedFile == IF selectedId = 0 THEN <<>> ELSE getFile(selectedId)

handleCreateNew(name) ==
    /\ Mounted
    /\ uuidCount < MaxUuid
    /\ TimerRoom
    /\ \E t2 \in SecondRead :
        /\ DoCreateFile(name, NewFileContent, t2)
        /\ DoAddToast("success", "File created", t2)
    /\ selectedId' = randomUUID
    /\ isEditing' = TRUE
    /\ Record("handleCreateNew", [NoArg EXCEPT !.name = name], randomUUID)
    /\ UNCHANGED <<editableContent, uploads, bufferOf, themeVars>>

\* handleFiles for one file: an accepted file gets a FileReader, any other
\* file is skipped
handleFiles(file) ==
    /\ Mounted
    /\ uploads' = IF Accepted(file)
                  THEN uploads \cup {[name |-> file.name, content |-> file.content]}
                  ELSE uploads
    /\ Record("handleFiles", NoArg, 0)
    /\ UNCHANGED <<fileVars, now, toastVars, themeVars,
                   selectedId, isEditing, editableContent, bufferOf>>

\* reader.onload of one pending read: handleUpload(file.name, content)
handleUpload(read) ==
    /\ read \in uploads
    /\ uuidCount < MaxUuid
    /\ TimerRoom
    /\ \E t2 \in SecondRead :
        /\ DoCreateFile(read.name, read.content, t2)
        /\ DoAddToast("success", "Uploaded", t2)
    /\ uploads' = uploads \ {read}
    /\ selectedId' = randomUUID
    /\ Record("handleUpload", [NoArg EXCEPT !.name = read.name, !.content = read.content],
              randomUUID)
    /\ UNCHANGED <<isEditing, editableContent, bufferOf, themeVars>>

\* The Save button is rendered while a selected file is being edited
handleSave ==
    /\ selectedFile # <<>>
    /\ isEditing
    /\ TimerRoom
    /\ DoUpdateFile(selectedId, [content |-> editableContent])
    /\ isEditing' = FALSE
    /\ DoAddToast("success", "File saved", now)
    /\ Record("handleSave", [NoArg EXCEPT !.id = selectedId, !.content = editableContent], 0)
    /\ UNCHANGED <<selectedId, editableContent, uploads, bufferOf, themeVars>>

\* The delete button of a row of the file list
handleDelete(id) ==
    /\ Mounted
    /\ id \in Ids(files)
    /\ TimerRoom
    /\ DoDeleteFile(id)
    /\ IF selectedId = id
       THEN selectedId' = 0 /\ isEditing' = FALSE
       ELSE UNCHANGED <<selectedId, isEditing>>
    /\ DoAddToast("info", "File deleted", now)
    /\ Record("handleDelete", [NoArg EXCEPT !.id = id], 0)
    /\ UNCHANGED <<editableContent, uploads, bufferOf, themeVars>>

\* A click on a row of the file list
handleSelect(id) ==
    /\ Mounted
    /\ id \in Ids(files)
    /\ selectedId' = id
    /\ isEditing' = FALSE
    /\ Record("handleSelect", [NoArg EXCEPT !.id = id], 0)
    /\ UNCHANGED <<fileVars, now, toastVars, themeVars, editableContent, uploads, bufferOf>>

\* The Edit button is rendered while a selected file is being viewed
handleEdit ==
    /\ selectedFile # <<>>
    /\ ~isEditing
    /\ editableContent' = selectedFile[1].content
    /\ isEditing' = TRUE
    /\ bufferOf' = selectedId
    /\ Record("handleEdit", NoArg, 0)
    /\ UNCHANGED <<fileVars, now, toastVars, themeVars, selectedId, uploads>>

\* The Cancel button is rendered while a selected file is being edited
handleCancel ==
    /\ selectedFile # <<>>
    /\ isEditing
    /\ isEditing' = FALSE
    /\ editableContent' = selectedFile[1].content
    /\ bufferOf' = selectedId
    /\ Record("handleCancel", NoArg, 0)
    /\ UNCHANGED <<fileVars, now, toastVars, themeVars, selectedId, uploads>>

\* onChange of the textarea, rendered while a selected file is being edited
TextareaChange(text) ==
    /\ selectedFile # <<>>
    /\ isEditing
    /\ editableContent' = text
    /\ Record("type", [NoArg EXCEPT !.content = text], 0)
    /\ UNCHANGED <<fileVars, now, toastVars, themeVars, selectedId, isEditing, uploads, bufferOf>>

\* The close button of a notification
ToastClose(id) ==
    /\ id \in Ids(toasts)
    /\ removeToast(id)

\* State after the first render.  The mount effects run only if the render
\* did not throw.
InitFiles ==
    /\ stored \in StoredAtStart
    /\ filesKind = LoadFiles(stored).kind
    /\ files = LoadFiles(stored).items
    /\ uuidCount = Len(LoadFiles(stored).items)
    /\ writePending = ~RenderThrows(filesKind)

InitToastsAndApp ==
    /\ toasts = <<>>
    /\ timers = <<>>
    /\ toastCount = 0
    /\ selectedId = 0
    /\ isEditing = FALSE
    /\ editableContent = ""
    /\ uploads = {}
    /\ bufferOf = 0

InitHistory ==
    /\ lastOp = "init"
    /\ lastArg = NoArg
    /\ lastRet = 0

Init ==
    /\ InitFiles
    /\ now = 0
    /\ InitToastsAndApp
    /\ InitTheme(FALSE, "")
    /\ InitHistory

Next ==
    \/ \E name \in Names, content \in Contents : createFile(name, content)
    \/ \E id \in 0..uuidCount, updates \in UpdateSets : updateFile(id, updates)
    \/ \E id \in 0..uuidCount : deleteFile(id)
    \/ PersistEffect
    \/ Tick

Spec == Init /\ [][Next]_vars

\* The registry with updateFile open to every field of Partial<FileItem>
NextAnyUpdate ==
    \/ Next
    \/ \E id \in 0..uuidCount, updates \in IdUpdateSets : updateFile(id, updates)

SpecAnyUpdate == Init /\ [][NextAnyUpdate]_vars

\* The notification queue and the theme resolver.  removeToast is called
\* with the id of a notification in the queue or with an id that none has
\* (-1).
UiInit ==
    /\ stored = Absent
    /\ filesKind = "array"
    /\ files = <<>>
    /\ uuidCount = 0
    /\ writePending = FALSE
    /\ now = 0
    /\ InitToastsAndApp
    /\ \E dark \in BOOLEAN, s \in StoredThemeAtStart : InitTheme(dark, s)
    /\ InitHistory

UiNext ==
    \/ \E type \in ToastTypes : addToast(type, "m")
    \/ \E id \in Ids(toasts) \cup {-1} : removeToast(id)
    \/ TimerFires
    \/ Elapse
    \/ Tick
    \/ \E th \in Themes : setTheme(th)
    \/ OsSchemeChanges

UiSpec == UiInit /\ [][UiNext]_vars

\* The App component: what the user and the environment can do to the file
\* list, the editor, the uploader and the notifications.  The theme toggle
\* shares no state with them and is left to UiNext.
AppInit ==
    /\ stored = Absent
    /\ filesKind = LoadFiles(stored).kind
    /\ files = LoadFiles(stored).items
    /\ uuidCount = Len(files)
    /\ writePending = TRUE
    /\ now = 0
    /\ InitToastsAndApp
    /\ InitTheme(FALSE, "")
    /\ InitHistory

AppNext ==
    \/ \E name \in PromptNames : handleCreateNew(name)
    \/ \E file \in DroppedFiles : handleFiles(file)
    \/ \E read \in uploads : handleUpload(read)
    \/ handleSave
    \/ \E id \in 1..uuidCount : handleDelete(id)
    \/ \E id \in 1..uuidCount : handleSelect(id)
    \/ handleEdit
    \/ handleCancel
    \/ \E text \in TypedTexts : TextareaChange(text)
    \/ \E id \in Ids(toasts) : ToastClose(id)
    \/ TimerFires
    \/ Elapse
    \/ PersistEffect
    \/ Tick

AppSpec == AppInit /\ [][AppNext]_vars

----------------------------------------------------------------------------
(* Properties *)

\* The suffix test and the expected stored name, stated without endsWith
HasMdSuffix(name) == \E k \in 0..Len(name) : name = SubSeq(name, 1, k) \o ".md"
HasDoubledSuffix(name) == \E k \in 0..Len(name) : name = SubSeq(name, 1, k) \o ".md.md"
ExpectedName(name) == IF HasMdSuffix(name) THEN name ELSE name \o ".md"

\* The elements of fs whose id is not id, in their order in fs
Without(fs, id) ==
    LET keep == {i \in 1..Len(fs) : fs[i].id # id}
        rank(i) == Cardinality({j \in keep : j <= i})
    IN  [r \in 1..Cardinality(keep) |-> fs[CHOOSE i \in keep : rank(i) = r]]

IdsDistinct(seq) == \A i, j \in 1..Len(seq) : i # j => seq[i].id # seq[j].id

StoredIds == IF stored.kind = "array" THEN Ids(JSONparse(stored).items) ELSE {}

\* C1: no two documents of the collection share an id, and no updateFile,
\* whatever fields it is given, changes the id of a document.
C1_IdsUniqueAndImmutable ==
    [][/\ IdsDistinct(files')
       /\ lastOp' = "updateFile" =>
            /\ Len(files') = Len(files)
            /\ \A i \in 1..Len(files) : files'[i].id = files[i].id]_vars

\* C2: the notifications in the queue have pairwise distinct ids, also when
\* several addToast calls read the same clock value, so removeToast removes
\* at most one notification.
C2_ToastIdsDistinct ==
    /\ IdsDistinct(toasts)
    /\ lastOp = "removeToast" => lastRet <= 1

\* C3: when the documents key is absent or holds text that is not an array
\* of documents (not JSON, or JSON null, an object, a number, a string), the
\* registry starts with the empty collection and nothing throws.
C3_LoadFallsBackToEmpty ==
    (lastOp = "init" /\ stored.kind # "array") =>
        /\ filesKind = "array"
        /\ files = <<>>
        /\ ~RenderThrows(filesKind)

\* C4: createFile(name, content) returns an id that no document had before
\* the call; afterwards getFile of that id is a document with the given
\* content, named name if name ends in ".md" and name + ".md" otherwise, and
\* the suffix is never doubled.
C4_CreateFile ==
    [][lastOp' = "createFile" =>
        /\ lastRet' \notin Ids(files)
        /\ Find(files', lastRet') # <<>>
        /\ Find(files', lastRet')[1].content = lastArg'.content
        /\ Find(files', lastRet')[1].name = ExpectedName(lastArg'.name)
        /\ ~HasDoubledSuffix(lastArg'.name) => ~HasDoubledSuffix(Find(files', lastRet')[1].name)]_vars

C4_Witness ==
    /\ lastOp = "createFile"
    /\ lastArg.name = "n.md"
    /\ Len(files) >= 2
    /\ getFile(lastRet) # <<>>

\* C5: the light/dark class on the document root is the resolution of the
\* preference: the preference itself when it is light or dark, the OS signal
\* when it is system.  A change of the OS signal flips the class when the
\* preference is system and leaves it alone when it is light or dark.
C5_ThemeApplied ==
    /\ theme \in {"light", "dark"} => rootClass = theme
    /\ theme = "system" => rootClass = (IF osDark THEN "dark" ELSE "light")
    /\ (lastOp = "osChange" /\ lastArg.name = "system") => rootClass # lastArg.content
    /\ (lastOp = "osChange" /\ lastArg.name \in {"light", "dark"}) => rootClass = lastArg.content

C5_Witness ==
    /\ lastOp = "osChange"
    /\ theme = "system"
    /\ osDark
    /\ rootClass = "dark"

\* C6: when the timer of a notification fires, that notification is not in
\* the queue afterwards; removeToast(id) leaves no notification with that id;
\* and the timer of a notification that was already removed changes nothing.
C6_TimerAndDismiss ==
    [][/\ lastOp' = "timer" => \A i \in 1..Len(toasts') : toasts'[i].n # lastArg'.n
       /\ lastOp' = "removeToast" => \A i \in 1..Len(toasts') : toasts'[i].id # lastArg'.id
       /\ (lastOp' = "timer" /\ \A i \in 1..Len(toasts) : toasts[i].n # lastArg'.n)
            => toasts' = toasts]_vars

\* C7: every createFile, updateFile and deleteFile schedules a write of the
\* whole collection, and whenever no write is pending the stored text parses
\* to the collection in memory, same documents in the same order.  getFile
\* reads the collection in memory: it finds a new document before the store
\* holds it.
C7_StoreFollowsMemory ==
    /\ (Mounted /\ ~writePending) =>
            /\ stored.kind = "array"
            /\ JSONparse(stored).items = files
    /\ lastOp \in {"createFile", "updateFile", "deleteFile"} => writePending
    /\ lastOp = "createFile" => (getFile(lastRet) # <<>> /\ lastRet \notin StoredIds)

C7_Witness ==
    /\ lastOp = "persist"
    /\ ~writePending
    /\ Len(files) = 2
    /\ files[1].updatedAt > files[1].createdAt

\* C8: updateFile(id, {content: X}) gives every document with that id the
\* content X and an updatedAt not below the previous one, keeps its id, name
\* and createdAt, and keeps every other document and the order; with an id
\* that no document has the collection stays as it is.
C8_UpdateContent ==
    [][(lastOp' = "updateFile" /\ DOMAIN lastArg'.updates = {"content"}) =>
        /\ Len(files') = Len(files)
        /\ \A i \in 1..Len(files) :
            IF files[i].id = lastArg'.id
            THEN /\ files'[i].content = lastArg'.updates.content
                 /\ files'[i].updatedAt >= files[i].updatedAt
                 /\ files'[i].id = files[i].id
                 /\ files'[i].name = files[i].name
                 /\ files'[i].createdAt = files[i].createdAt
            ELSE files'[i] = files[i]
        /\ lastArg'.id \notin Ids(files) => files' = files]_vars

C8_Witness ==
    /\ lastOp = "updateFile"
    /\ lastArg.updates = [content |-> "c1"]
    /\ lastRet = 1
    /\ Len(files) = 2
    /\ \E i \in 1..2 : files[i].id = lastArg.id /\ files[i].updatedAt > files[i].createdAt
    /\ \E i \in 1..2 : files[i].id # lastArg.id /\ files[i].content = "c0"

C10_BufferOfSelected ==
    /\ (isEditing /\ selectedFile # <<>>) => bufferOf = selectedId
    /\ lastOp = "handleSave" => bufferOf = lastArg.id

====
